---- MODULE Spec2Model ----
(***************************************************************************)
(* Net & Serial Monitor (src/main.cpp): two worker threads that resolve    *)
(* and repeatedly run a probe script and publish the result in an atomic   *)
(* cell, a UI thread whose timer callback and panel draw read the cells,   *)
(* and the shutdown path of main.                                          *)
(*                                                                         *)
(* Every action is one atomic step of one thread: at most one access to a  *)
(* std::atomic of AppState, or one external effect (std::system begins or  *)
(* returns, sleep_for), together with the thread-local code around it.     *)
(***************************************************************************)
EXTENDS Integers, Sequences, FiniteSets, TLC

\* ---------------------------------------------------------------- bounds
\* Increments of the inter-iteration sleep loop (the source takes 40,
\* main.cpp:193 and :210); the loop's shape does not depend on the count.
SleepSteps == 2
\* The count of the source's sleep loop: for (int i = 0; i < 40 && ...).
SleepIncrements == 40
\* Longest value of PATH, in tokens, among the environments of ResolveSpec.
MaxPathLen == 3
\* Most executable copies of one script among the environments of ResolveSpec.
MaxCopies == 2
\* Saturation of the bookkeeping counters of steps taken after a stop.
MaxCount == 3

\* ------------------------------------------------------------ ProbeState
Unknown == -1
Fail == 0
Ok == 1
ProbeState == {Unknown, Fail, Ok}

\* The two worker threads, named after their functions.
Workers == {"network_worker", "serial_worker"}
\* The two probe cells of AppState.
Cells == {"network", "serial"}

\* The script each worker resolves.
ScriptOf(w) == IF w = "network_worker" THEN "test_network.sh" ELSE "test_serial.sh"

\* The cell a worker publishes the result of its invocations in.
LoopCell(w) == IF w = "network_worker" THEN "network" ELSE "serial"

\* The cell a worker stores Unknown in when its script is not found: both
\* functions name s->serial (main.cpp:183 and main.cpp:201).
NotFoundCell(w) == "serial"

\* -------------------------------------------------------- resolve_path
\* getenv("PATH") is either absent (<<>>) or <<s>>, s the value as a
\* sequence of tokens: ":" or a piece of a directory name.
Colon == ":"

\* std::getline(ss, dir, ':') on the rest of the stream: the tokens up to
\* the first ':' (which is consumed), concatenated.
RECURSIVE FirstField(_)
FirstField(s) ==
    IF s = <<>> \/ Head(s) = Colon THEN ""
    ELSE Head(s) \o FirstField(Tail(s))

RECURSIVE AfterField(_)
AfterField(s) ==
    IF s = <<>> THEN <<>>
    ELSE IF Head(s) = Colon THEN Tail(s)
    ELSE AfterField(Tail(s))

\* The directories the while loop of resolve_path visits, in order: getline
\* fails (the loop ends) once the stream is exhausted, so a trailing ':'
\* yields no last empty field.
RECURSIVE Fields(_)
Fields(s) ==
    IF s = <<>> THEN <<>>
    ELSE <<FirstField(s)>> \o Fields(AfterField(s))

fallbacks == <<"/usr/local/bin", "/usr/bin">>

Candidate(dir, scr) == dir \o "/" \o scr

\* First candidate of dirs that access(.., X_OK) accepts, "" if none;
\* empty directory names are skipped by the caller where the source does.
RECURSIVE FirstExecutable(_, _, _)
FirstExecutable(dirs, scr, X) ==
    IF dirs = <<>> THEN ""
    ELSE IF Candidate(Head(dirs), scr) \in X THEN Candidate(Head(dirs), scr)
    ELSE FirstExecutable(Tail(dirs), scr, X)

\* Mutant: the loop without if (dir.empty()) continue.
NonEmptyDirs_all(dirs) == dirs

\* if (dir.empty()) continue
NonEmptyDirs(dirs) == SelectSeq(dirs, LAMBDA d : d # "")

resolve_path(scr, env, X) ==
    LET inPath == IF env = <<>> THEN ""
                  ELSE FirstExecutable(NonEmptyDirs(Fields(env[1])), scr, X)
    IN IF inPath # "" THEN inPath
       ELSE FirstExecutable(fallbacks, scr, X)

\* ------------------------------------------------- run_command_success
\* Values std::system can return: -1 (the shell could not be launched) or a
\* wait status: 0 (exit 0), 256 (exit 1).
SystemResults == {-1, 0, 256}

\* Mutant: the status of std::system stored as it is.
run_command_success_raw(rc) == rc

\* Mutant: a test of the sign instead of the test against zero.
run_command_success_sign(rc) == IF rc >= 0 THEN Ok ELSE Fail

run_command_success(rc) == IF rc = 0 THEN Ok ELSE Fail

\* ------------------------------------------------------ StatusPanel etc.
\* Mutant: the colours of Ok and Fail exchanged.
color_for_exchanged(st) ==
    IF st = Ok THEN "red"
    ELSE IF st = Fail THEN "green"
    ELSE "gray"

color_for(st) ==
    IF st = Ok THEN "green"
    ELSE IF st = Fail THEN "red"
    ELSE "gray"

to_str(st) ==
    IF st = Ok THEN "OK"
    ELSE IF st = Fail THEN "down"
    ELSE "unknown"

\* Colour of the third, reserved indicator: fl_rgb_color(128,128,128).
reserved_color == "gray"

\* Mutant: the arguments of the snprintf in the other order.
status_line_exchanged(p, q) == "network=" \o to_str(q) \o ", serial=" \o to_str(p)

\* The snprintf of make_status_line on the two loaded values.
status_line(p, q) == "network=" \o to_str(p) \o ", serial=" \o to_str(q)

\* ---------------------------------------------------------------- state
VARIABLES
    network, serial, running,   \* AppState
    PATH, execs,                \* environment: getenv("PATH"), files access(X_OK) accepts
    pc, script, rc, i,          \* per worker: position, resolved path, status of the
                                \* std::system call being stored, sleep loop counter
    uiPc,                       \* position of the main (UI) thread
    winShown,                   \* whether Fl::first_window() is non-null
    timerArmed,                 \* whether ui_timer_cb is scheduled
    p, q,                       \* locals of make_status_line (<<>> outside it)
    c0, c1, c2,                 \* locals of StatusPanel::draw (<<>> outside it)
    label,                      \* label of status_box
    exitCode,                   \* <<>> until main returns, then <<its value>>
    writers,                    \* history: per cell, the workers that stored into it
    resolves,                   \* history: per worker, the calls of resolve_path
    invoked,                    \* history: per worker, whether it ever called std::system
    completed,                  \* history: per worker, <<>> or <<the result of the
                                \* invocation it most recently completed>>
    late,                       \* history: per worker, steps taken while running was false
    touched                     \* history: whether a worker stored into a cell since
                                \* the first load of the refresh in progress

appVars == <<network, serial, running>>
envVars == <<PATH, execs>>
workerVars == <<pc, script, rc, i>>
uiVars == <<uiPc, winShown, timerArmed, p, q, c0, c1, c2, label, exitCode>>
histVars == <<writers, resolves, invoked, completed, late, touched>>
vars == <<appVars, envVars, workerVars, uiVars, histVars>>

\* The environments the program is started in: each script found through
\* PATH, found through a fallback directory, or found nowhere.
Environments ==
    { [path |-> <<<<"/opt/mon", Colon, "/usr/bin">>>>,
       X |-> {"/opt/mon/test_network.sh", "/usr/bin/test_serial.sh"}],
      [path |-> <<<<Colon, "/opt/mon", Colon>>>>,
       X |-> {"/usr/local/bin/test_network.sh"}],
      [path |-> <<>>,
       X |-> {"/usr/bin/test_serial.sh", "/opt/mon/test_network.sh"}],
      [path |-> <<<<"/opt/mon">>>>,
       X |-> {"/opt/mon/test_other.sh"}] }

\* Every value of PATH of at most MaxPathLen tokens, and PATH absent.
PathTokens == {Colon, "/a", "/b"}
PathValues ==
    {<<>>} \cup {<<s>> : s \in UNION {[1..k -> PathTokens] : k \in 0..MaxPathLen}}

\* Directories that may hold an executable script; "" stands for the root.
ScriptDirs == {"", "/a", "/b", "/a/b", "/usr/local/bin", "/usr/bin"}

\* The environments of ResolveSpec: any such PATH, and one of the two
\* scripts executable in at most MaxCopies of the directories.
AllEnvironments ==
    { [path |-> v, X |-> D] :
        v \in PathValues,
        D \in {D \in UNION {SUBSET {Candidate(d, ScriptOf(w)) : d \in ScriptDirs} :
                              w \in Workers} :
                 Cardinality(D) <= MaxCopies} }

\* State at main.cpp:285, about to enter Fl::run(): AppState constructed,
\* the window shown, both threads started, the timer added.
InitIn(envs) ==
    /\ network = Unknown
    /\ serial = Unknown
    /\ running = TRUE
    /\ \E e \in envs : PATH = e.path /\ execs = e.X
    /\ pc = [w \in Workers |-> "resolve"]
    /\ script = [w \in Workers |-> ""]
    /\ rc = [w \in Workers |-> <<>>]
    /\ i = [w \in Workers |-> 0]
    /\ uiPc = "run"
    /\ winShown = TRUE
    /\ timerArmed = TRUE
    /\ p = <<>>
    /\ q = <<>>
    /\ c0 = <<>>
    /\ c1 = <<>>
    /\ c2 = <<>>
    /\ label = "network=unknown, serial=unknown"
    /\ exitCode = <<>>
    /\ writers = [c \in Cells |-> {}]
    /\ resolves = [w \in Workers |-> 0]
    /\ invoked = [w \in Workers |-> FALSE]
    /\ completed = [w \in Workers |-> <<>>]
    /\ late = [w \in Workers |-> [calls |-> 0, sleeps |-> 0, stores |-> 0]]
    /\ touched = FALSE

Init == InitIn(Environments)

\* ------------------------------------------------------------- helpers
\* std::atomic<ProbeState>::load on the named cell.
CellOf(c) == IF c = "network" THEN network ELSE serial

\* std::atomic<ProbeState>::store on the named cell.
StoreCell(c, v) ==
    /\ network' = IF c = "network" THEN v ELSE network
    /\ serial' = IF c = "serial" THEN v ELSE serial

Bump(n) == IF n < MaxCount THEN n + 1 ELSE n

\* Bookkeeping of a step of kind k ("calls", "sleeps", "stores") by w.
Late(w, k) ==
    IF running THEN late
    ELSE [late EXCEPT ![w][k] = Bump(late[w][k])]

\* Positions of the UI thread between the first load of a refresh (in
\* make_status_line) and the last (in StatusPanel::draw).
BetweenLoads == {"load_q", "line", "flush", "load_c1"}

\* Bookkeeping of a store into a cell.
Touch == touched \/ uiPc \in BetweenLoads

\* ------------------------------------------------------- worker threads
\* resolve_path and the test script.empty().
Resolve(w) ==
    /\ pc[w] = "resolve"
    /\ script' = [script EXCEPT ![w] = resolve_path(ScriptOf(w), PATH, execs)]
    /\ pc' = [pc EXCEPT ![w] = IF script'[w] = "" THEN "notfound" ELSE "while"]
    /\ resolves' = [resolves EXCEPT ![w] = Bump(@)]
    /\ UNCHANGED <<appVars, envVars, rc, i, uiVars, writers, invoked, completed,
                   late, touched>>

\* Mutant: the not-found path without its return, falling into the loop.
NotFound_fallthrough(w) ==
    /\ pc[w] = "notfound"
    /\ StoreCell(NotFoundCell(w), Unknown)
    /\ pc' = [pc EXCEPT ![w] = "while"]
    /\ writers' = [writers EXCEPT ![NotFoundCell(w)] = @ \cup {w}]
    /\ late' = IF NotFoundCell(w) = LoopCell(w) THEN Late(w, "stores") ELSE late
    /\ touched' = Touch
    /\ UNCHANGED <<running, envVars, script, rc, i, uiVars, resolves, invoked,
                   completed>>

\* The store of Unknown on the not-found path, and the return.
NotFound(w) ==
    /\ pc[w] = "notfound"
    /\ StoreCell(NotFoundCell(w), Unknown)
    /\ pc' = [pc EXCEPT ![w] = "done"]
    /\ writers' = [writers EXCEPT ![NotFoundCell(w)] = @ \cup {w}]
    /\ late' = IF NotFoundCell(w) = LoopCell(w) THEN Late(w, "stores") ELSE late
    /\ touched' = Touch
    /\ UNCHANGED <<running, envVars, script, rc, i, uiVars, resolves, invoked,
                   completed>>

\* Mutant: a loop that is left after a failed invocation.
WhileTest_gives_up(w) ==
    /\ pc[w] = "while"
    /\ pc' = [pc EXCEPT ![w] = IF running /\ completed[w] # <<Fail>>
                                THEN "call" ELSE "done"]
    /\ UNCHANGED <<appVars, envVars, script, rc, i, uiVars, histVars>>

\* while (s->running.load())
WhileTest(w) ==
    /\ pc[w] = "while"
    /\ pc' = [pc EXCEPT ![w] = IF running THEN "call" ELSE "done"]
    /\ UNCHANGED <<appVars, envVars, script, rc, i, uiVars, histVars>>

\* run_command_success: std::system(cmd) begins.
Call(w) ==
    /\ pc[w] = "call"
    /\ pc' = [pc EXCEPT ![w] = "system"]
    /\ invoked' = [invoked EXCEPT ![w] = TRUE]
    /\ late' = Late(w, "calls")
    /\ touched' = touched
    /\ UNCHANGED <<appVars, envVars, script, rc, i, uiVars, writers, resolves,
                   completed>>

\* std::system returns its status.
SystemReturns(w) ==
    /\ pc[w] = "system"
    /\ \E r \in SystemResults : rc' = [rc EXCEPT ![w] = <<r>>]
    /\ pc' = [pc EXCEPT ![w] = "store"]
    /\ UNCHANGED <<appVars, envVars, script, i, uiVars, histVars>>

\* The store of the result into the worker's cell; int i = 0.
Store(w) ==
    /\ pc[w] = "store"
    /\ StoreCell(LoopCell(w), run_command_success(rc[w][1]))
    /\ completed' = [completed EXCEPT ![w] = <<CellOf(LoopCell(w))'>>]
    /\ rc' = [rc EXCEPT ![w] = <<>>]
    /\ i' = [i EXCEPT ![w] = 0]
    /\ pc' = [pc EXCEPT ![w] = "for"]
    /\ writers' = [writers EXCEPT ![LoopCell(w)] = @ \cup {w}]
    /\ late' = Late(w, "stores")
    /\ touched' = Touch
    /\ UNCHANGED <<running, envVars, script, uiVars, resolves, invoked>>

\* Mutant: the sleep loop without its test of running.
ForTest_count_only(w) ==
    /\ pc[w] = "for"
    /\ IF i[w] < SleepSteps
       THEN pc' = [pc EXCEPT ![w] = "sleep"] /\ i' = i
       ELSE pc' = [pc EXCEPT ![w] = "while"] /\ i' = [i EXCEPT ![w] = 0]
    /\ UNCHANGED <<appVars, envVars, script, rc, uiVars, histVars>>

\* Mutant: the loop test with <= in place of <.
ForLoop_inclusive(w, n) ==
    /\ pc[w] = "for"
    /\ IF i[w] <= n /\ running
       THEN pc' = [pc EXCEPT ![w] = "sleep"] /\ i' = i
       ELSE pc' = [pc EXCEPT ![w] = "while"] /\ i' = [i EXCEPT ![w] = 0]
    /\ UNCHANGED <<appVars, envVars, script, rc, uiVars, histVars>>

\* The test of for (int i = 0; i < n && s->running.load(); ++i); i is
\* local to the loop body and is gone when the loop is left.
ForLoop(w, n) ==
    /\ pc[w] = "for"
    /\ IF i[w] < n /\ running
       THEN pc' = [pc EXCEPT ![w] = "sleep"] /\ i' = i
       ELSE pc' = [pc EXCEPT ![w] = "while"] /\ i' = [i EXCEPT ![w] = 0]
    /\ UNCHANGED <<appVars, envVars, script, rc, uiVars, histVars>>

\* i < 40 && s->running.load(), with the count at the bound SleepSteps
ForTest(w) == ForLoop(w, SleepSteps)

\* i < 40 && s->running.load(), with the source's count
ForTest40(w) == ForLoop(w, SleepIncrements)

\* std::this_thread::sleep_for(50ms); ++i
Sleep(w) ==
    /\ pc[w] = "sleep"
    /\ i' = [i EXCEPT ![w] = @ + 1]
    /\ pc' = [pc EXCEPT ![w] = "for"]
    /\ late' = Late(w, "sleeps")
    /\ touched' = touched
    /\ UNCHANGED <<appVars, envVars, script, rc, uiVars, writers, resolves,
                   invoked, completed>>

WorkerStep(w) ==
    \/ Resolve(w)
    \/ NotFound(w)
    \/ WhileTest(w)
    \/ Call(w)
    \/ SystemReturns(w)
    \/ Store(w)
    \/ ForTest(w)
    \/ Sleep(w)

network_worker == WorkerStep("network_worker")
serial_worker == WorkerStep("serial_worker")

\* The worker threads with the sleep loop at the source's count.
WorkerStep40(w) ==
    \/ Resolve(w)
    \/ NotFound(w)
    \/ WhileTest(w)
    \/ Call(w)
    \/ SystemReturns(w)
    \/ Store(w)
    \/ ForTest40(w)
    \/ Sleep(w)

network_worker40 == WorkerStep40("network_worker")
serial_worker40 == WorkerStep40("serial_worker")

\* ------------------------------------------------------ main (UI) thread
\* Fl::run() dispatches, while a window is shown, one of: the timer
\* callback, a widget callback, a redraw of the damaged panel.

\* Mutant: a read that resets the cell (exchange instead of load).
TimerLoadP_exchange ==
    /\ uiPc = "run"
    /\ winShown
    /\ timerArmed
    /\ timerArmed' = FALSE
    /\ p' = <<network>>
    /\ network' = Unknown
    /\ uiPc' = "load_q"
    /\ UNCHANGED <<serial, running, envVars, workerVars, winShown, q, c0, c1, c2, label,
                   exitCode, histVars>>

\* ui_timer_cb fires; make_status_line: auto p = s.network.load()
TimerLoadP ==
    /\ uiPc = "run"
    /\ winShown
    /\ timerArmed
    /\ timerArmed' = FALSE
    /\ p' = <<network>>
    /\ uiPc' = "load_q"
    /\ UNCHANGED <<appVars, envVars, workerVars, winShown, q, c0, c1, c2, label,
                   exitCode, histVars>>

\* Mutant: a load that waits until the serial probe's subprocess has returned.
TimerLoadQ_waits ==
    /\ uiPc = "load_q"
    /\ pc["serial_worker"] # "system"
    /\ q' = <<serial>>
    /\ uiPc' = "line"
    /\ UNCHANGED <<appVars, envVars, workerVars, winShown, timerArmed, p, c0, c1, c2,
                   label, exitCode, histVars>>

\* make_status_line: auto q = s.serial.load()
TimerLoadQ ==
    /\ uiPc = "load_q"
    /\ q' = <<serial>>
    /\ uiPc' = "line"
    /\ UNCHANGED <<appVars, envVars, workerVars, winShown, timerArmed, p, c0, c1, c2,
                   label, exitCode, histVars>>

\* Mutant: the callback without Fl::repeat_timeout.
TimerLabel_once ==
    /\ uiPc = "line"
    /\ label' = status_line(p[1], q[1])
    /\ p' = <<>>
    /\ q' = <<>>
    /\ timerArmed' = FALSE
    /\ uiPc' = "flush"
    /\ UNCHANGED <<appVars, envVars, workerVars, winShown, c0, c1, c2, exitCode,
                   histVars>>

\* The rest of make_status_line and of ui_timer_cb: snprintf, copy_label,
\* panel->redraw(), Fl::repeat_timeout.
TimerLabel ==
    /\ uiPc = "line"
    /\ label' = status_line(p[1], q[1])
    /\ p' = <<>>
    /\ q' = <<>>
    /\ timerArmed' = TRUE
    /\ uiPc' = "flush"
    /\ UNCHANGED <<appVars, envVars, workerVars, winShown, c0, c1, c2, exitCode,
                   histVars>>

\* Mutant: the callback without the hide.
Hide_skipped(shown) == shown

\* if (Fl::first_window()) Fl::first_window()->hide(), the one window.
Hide(shown) == IF shown THEN FALSE ELSE shown

\* Mutant: an exit callback that hides the window and leaves running true.
ExitButton_hide_only ==
    /\ uiPc \in {"run", "flush"}
    /\ winShown
    /\ winShown' = Hide(winShown)
    /\ UNCHANGED <<appVars, envVars, workerVars, uiPc, timerArmed, p, q,
                   c0, c1, c2, label, exitCode, histVars>>

\* The callback of exit_btn.
ExitButton ==
    /\ uiPc \in {"run", "flush"}
    /\ winShown
    /\ running' = FALSE
    /\ winShown' = Hide(winShown)
    /\ UNCHANGED <<network, serial, envVars, workerVars, uiPc, timerArmed, p, q,
                   c0, c1, c2, label, exitCode, histVars>>

\* The callback of win (window close).
WindowClose ==
    /\ uiPc \in {"run", "flush"}
    /\ winShown
    /\ running' = FALSE
    /\ winShown' = Hide(winShown)
    /\ UNCHANGED <<network, serial, envVars, workerVars, uiPc, timerArmed, p, q,
                   c0, c1, c2, label, exitCode, histVars>>

\* The flush at the end of Fl::wait(): StatusPanel::draw of the damaged
\* panel up to c0 = color_for(state_->network.load()); a hidden window is
\* not drawn.
DrawLoad0 ==
    /\ uiPc = "flush"
    /\ IF winShown
       THEN c0' = <<color_for(network)>> /\ uiPc' = "load_c1" /\ touched' = touched
       ELSE c0' = c0 /\ uiPc' = "run" /\ touched' = FALSE
    /\ UNCHANGED <<appVars, envVars, workerVars, winShown, timerArmed, p, q, c1, c2,
                   label, exitCode, writers, resolves, invoked, completed, late>>

\* Mutant: the second colour taken from the network cell.
DrawLoad1_network ==
    /\ uiPc = "load_c1"
    /\ c1' = <<color_for(network)>>
    /\ c2' = <<reserved_color>>
    /\ uiPc' = "circles"
    /\ UNCHANGED <<appVars, envVars, workerVars, winShown, timerArmed, p, q, c0,
                   label, exitCode, histVars>>

\* StatusPanel::draw: c1 = color_for(state_->serial.load()); c2 is the
\* reserved gray.
DrawLoad1 ==
    /\ uiPc = "load_c1"
    /\ c1' = <<color_for(serial)>>
    /\ c2' = <<reserved_color>>
    /\ uiPc' = "circles"
    /\ UNCHANGED <<appVars, envVars, workerVars, winShown, timerArmed, p, q, c0,
                   label, exitCode, histVars>>

\* StatusPanel::draw: the circles and captions are drawn, draw returns.
DrawCircles ==
    /\ uiPc = "circles"
    /\ c0' = <<>>
    /\ c1' = <<>>
    /\ c2' = <<>>
    /\ uiPc' = "run"
    /\ touched' = FALSE
    /\ UNCHANGED <<appVars, envVars, workerVars, winShown, timerArmed, p, q,
                   label, exitCode, writers, resolves, invoked, completed, late>>

\* Fl::run() returns once no window is shown.
RunReturns ==
    /\ uiPc = "run"
    /\ ~winShown
    /\ uiPc' = "stop"
    /\ UNCHANGED <<appVars, envVars, workerVars, winShown, timerArmed, p, q, c0,
                   c1, c2, label, exitCode, histVars>>

\* state.running.store(false) after the UI loop.
MainStop ==
    /\ uiPc = "stop"
    /\ running' = FALSE
    /\ uiPc' = "join_network"
    /\ UNCHANGED <<network, serial, envVars, workerVars, winShown, timerArmed,
                   p, q, c0, c1, c2, label, exitCode, histVars>>

\* Mutant: a join that does not wait (a detached thread).
Joined_nowait(w) == TRUE

\* std::thread::join returns once the thread's function has returned.
Joined(w) == pc[w] = "done"

JoinNetwork ==
    /\ uiPc = "join_network"
    /\ Joined("network_worker")
    /\ uiPc' = "join_serial"
    /\ UNCHANGED <<appVars, envVars, workerVars, winShown, timerArmed, p, q, c0,
                   c1, c2, label, exitCode, histVars>>

\* t_ser.join(); return 0: AppState is destroyed.
JoinSerial ==
    /\ uiPc = "join_serial"
    /\ Joined("serial_worker")
    /\ uiPc' = "returned"
    /\ exitCode' = <<0>>
    /\ UNCHANGED <<appVars, envVars, workerVars, winShown, timerArmed, p, q, c0,
                   c1, c2, label, histVars>>

Next ==
    \/ network_worker
    \/ serial_worker
    \/ TimerLoadP
    \/ TimerLoadQ
    \/ TimerLabel
    \/ ExitButton
    \/ WindowClose
    \/ DrawLoad0
    \/ DrawLoad1
    \/ DrawCircles
    \/ RunReturns
    \/ MainStop
    \/ JoinNetwork
    \/ JoinSerial

Spec == Init /\ [][Next]_vars

\* The program with the sleep loop at the source's count of 40. The refresh
\* path only reads the cells and is left out: the workers and the stop
\* path are all that the sleep loop depends on.
NextSleep ==
    \/ network_worker40
    \/ serial_worker40
    \/ ExitButton
    \/ WindowClose
    \/ RunReturns
    \/ MainStop
    \/ JoinNetwork
    \/ JoinSerial

SleepSpec == Init /\ [][NextSleep]_vars

\* The two workers started in any of AllEnvironments; the main thread
\* takes no part in the resolution of the scripts and is left out.
NextResolve ==
    \/ network_worker
    \/ serial_worker

ResolveSpec == InitIn(AllEnvironments) /\ [][NextResolve]_vars

\* The steps of the main thread.
MainThread ==
    \/ TimerLoadP
    \/ TimerLoadQ
    \/ TimerLabel
    \/ ExitButton
    \/ WindowClose
    \/ DrawLoad0
    \/ DrawLoad1
    \/ DrawCircles
    \/ RunReturns
    \/ MainStop
    \/ JoinNetwork
    \/ JoinSerial

\* Each of the three threads keeps being scheduled, and a std::system call
\* in flight returns.
Fairness ==
    /\ WF_vars(network_worker)
    /\ WF_vars(serial_worker)
    /\ WF_vars(MainThread)

FairSpec == Init /\ [][Next]_vars /\ Fairness

\* =============================================================== claims

\* C1: single-writer discipline: the network cell is stored into only by
\* the network worker and the serial cell only by the serial worker, on
\* every path, the executable-not-found path included.
C1_SingleWriter ==
    /\ writers["network"] \subseteq {"network_worker"}
    /\ writers["serial"] \subseteq {"serial_worker"}

\* A worker that has resolved its script to nothing.
Missing(w) == resolves[w] > 0 /\ script[w] = ""

\* C2: a worker whose executable was not resolved never calls std::system,
\* never resolves again, is on its way out or has returned, and its own
\* cell is Unknown from then on.
C2_NotFoundStaysUnknown ==
    \A w \in Workers :
        Missing(w) =>
            /\ ~invoked[w]
            /\ resolves[w] = 1
            /\ pc[w] \in {"notfound", "done"}
            /\ CellOf(LoopCell(w)) = Unknown

\* C2 witness: the serial script is missing, its worker has returned, and
\* the network probe has published a result meanwhile.
C2_Witness ==
    /\ Missing("serial_worker")
    /\ pc["serial_worker"] = "done"
    /\ network = Ok
    /\ serial = Unknown

\* The other worker.
Other(w) == IF w = "network_worker" THEN "serial_worker" ELSE "network_worker"

\* A worker whose probe is failing: missing, or its last invocation failed.
Failing(w) ==
    \/ Missing(w)
    \/ completed[w] # <<>> /\ completed[w][1] = Fail

\* C3: failure isolation: while one probe is missing or failing, the other
\* probe's cell holds the result of that probe's own most recently
\* completed invocation, once it has completed one.
C3_FailureIsolation ==
    \A w \in Workers :
        (Failing(Other(w)) /\ completed[w] # <<>>) =>
            CellOf(LoopCell(w)) = completed[w][1]

\* C4: the step that completes an invocation stores Ok into the worker's
\* cell exactly when std::system returned 0 and Fail for every other status
\* (-1 included) and goes on to the sleep loop; a worker leaves its loop
\* only through the not-found path or the stop flag, never because of a Fail.
C4_OkIffZero ==
    [][ \A w \in Workers :
          /\ (pc[w] = "store" /\ pc'[w] # "store") =>
                /\ CellOf(LoopCell(w))' = Ok <=> rc[w][1] = 0
                /\ CellOf(LoopCell(w))' = Fail <=> rc[w][1] # 0
                /\ pc'[w] = "for"
          /\ pc'[w] = "done" => (Missing(w)' \/ ~running')
      ]_vars

\* C4 witness: a failed invocation was stored as Fail and the worker has
\* called std::system again.
C4_Witness ==
    \E w \in Workers :
        /\ completed[w] = <<Fail>>
        /\ CellOf(LoopCell(w)) = Fail
        /\ pc[w] = "system"
        /\ running

\* main has returned 0 and both workers have left their functions.
Stopped ==
    /\ uiPc = "returned"
    /\ exitCode = <<0>>
    /\ \A w \in Workers : pc[w] = "done"

\* C5: shutdown liveness: once running is false, under fair scheduling and
\* returning subprocess calls, both worker loops end, main joins both
\* workers and the process exits with code 0.
C5_ShutdownLiveness == (~running) ~> Stopped

\* C5 witness: the process has exited after a stop requested while a
\* subprocess call of each worker was still to return.
C5_Witness ==
    /\ Stopped
    /\ \A w \in Workers : late[w].stores = 1

\* C6: bounded shutdown work: while running is false a worker begins at
\* most one std::system call, takes at most one sleep increment and stores
\* at most once into its cell.
C6_BoundedShutdownWork ==
    \A w \in Workers :
        /\ late[w].calls <= 1
        /\ late[w].sleeps <= 1
        /\ late[w].stores <= 1

\* C6 witness: after the stop the network worker began and stored one
\* invocation, the serial worker took one sleep increment, both have left.
C6_Witness ==
    /\ ~running
    /\ late["network_worker"].calls = 1
    /\ late["network_worker"].stores = 1
    /\ late["serial_worker"].sleeps = 1
    /\ \A w \in Workers : pc[w] = "done"

\* C7: lifecycle ordering: main has returned (AppState released) only when
\* the UI loop has exited, running is false and both workers have returned,
\* so no worker step touches the state after its release.
C7_StoppedAfterWorkers ==
    uiPc = "returned" =>
        /\ ~winShown
        /\ ~running
        /\ \A w \in Workers : pc[w] = "done"

\* C7 witness: main returned after both workers had published results.
C7_Witness ==
    /\ uiPc = "returned"
    /\ \A w \in Workers : completed[w] # <<>> /\ pc[w] = "done"

\* C8: the lifecycle only moves forward: running starts true, changes only
\* in the exit-button callback, the window-close callback or main after the
\* UI loop, only to false, and is never true again; main returns only with
\* running false; both callbacks set running false and hide the window.
C8_LifecycleForward ==
    /\ running = TRUE
    /\ [][ /\ running' # running => (ExitButton \/ WindowClose \/ MainStop)
           /\ ~running => ~running'
           /\ uiPc = "returned" => uiPc' = "returned"
           /\ uiPc' = "returned" => ~running'
           /\ (ExitButton \/ WindowClose) => (~running' /\ ~winShown')
         ]_vars

\* C8 witness: a callback has stopped the program, the UI loop has not yet
\* returned and a worker is still inside a subprocess call.
C8_Witness ==
    /\ ~running
    /\ ~winShown
    /\ uiPc = "run"
    /\ \E w \in Workers : pc[w] = "system"

\* The steps of ui_timer_cb, make_status_line and StatusPanel::draw.
RenderStep ==
    \/ TimerLoadP
    \/ TimerLoadQ
    \/ TimerLabel
    \/ DrawLoad0
    \/ DrawLoad1
    \/ DrawCircles

Loaded(S) == {<<>>} \cup {<<v>> : v \in S}

\* What a refresh can produce from valid cell values.
RenderOK ==
    /\ label \in {status_line(a, b) : a, b \in ProbeState}
    /\ c0 \in Loaded({"green", "red", "gray"})
    /\ c1 \in Loaded({"green", "red", "gray"})

\* C9: no step of the render/refresh path changes the network cell, the
\* serial cell or the running flag, and every such step yields a status
\* line and colours for whatever the cells hold, (Unknown, Unknown) included.
C9_RenderReadOnly ==
    /\ RenderOK
    /\ [][ /\ RenderStep => UNCHANGED appVars
           /\ RenderOK'
         ]_vars

\* C9 witness: a refresh has run to the end of draw on the values (Ok, Fail).
C9_Witness ==
    /\ uiPc = "circles"
    /\ network = Ok /\ serial = Fail
    /\ label = "network=OK, serial=down"
    /\ c0 = <<"green">> /\ c1 = <<"red">>

\* The cells and the values loaded from them are ProbeState values.
ValidCells ==
    /\ network \in ProbeState
    /\ serial \in ProbeState
    /\ p \in Loaded(ProbeState)
    /\ q \in Loaded(ProbeState)
    /\ c0 \in Loaded({color_for(v) : v \in ProbeState})
    /\ c1 \in Loaded({color_for(v) : v \in ProbeState})

\* C10: no torn reads: the cells hold only Unknown, Ok or Fail, and every
\* load of the refresh path returns the value its cell holds at that step,
\* which is the value before or after any store of the probe.
C10_NoTornReads ==
    /\ ValidCells
    /\ [][ /\ ValidCells'
           /\ TimerLoadP => p' = <<network>> /\ network' = network
           /\ TimerLoadQ => q' = <<serial>> /\ serial' = serial
           /\ (DrawLoad0 /\ winShown) => c0' = <<color_for(network)>>
           /\ DrawLoad1 => c1' = <<color_for(serial)>>
         ]_vars

\* C10 witness: the refresh loaded the network cell before a store of the
\* network worker and holds the earlier value while the cell holds the new.
C10_Witness ==
    /\ uiPc = "load_q"
    /\ p = <<Fail>>
    /\ network = Ok
    /\ writers["network"] = {"network_worker"}

\* The text the status line shows for a ProbeState value.
TextOf == [v \in ProbeState |->
             CASE v = Ok -> "OK" [] v = Fail -> "down" [] v = Unknown -> "unknown"]

ColourOf == [v \in ProbeState |->
               CASE v = Ok -> "green" [] v = Fail -> "red" [] v = Unknown -> "gray"]

\* C12: color_for maps Ok to green, Fail to red and Unknown to gray;
\* indicator 0 takes the network cell, indicator 1 the serial cell, and the
\* third indicator is gray whatever the cells hold.
C12_Colours ==
    /\ \A v \in ProbeState : color_for(v) = ColourOf[v]
    /\ [][ /\ (DrawLoad0 /\ winShown) => c0' = <<ColourOf[network]>>
           /\ DrawLoad1 => (c1' = <<ColourOf[serial]>> /\ c2' = <<"gray">>)
           /\ uiPc' = "circles" => c2' = <<"gray">>
         ]_vars

\* C12 witness: a draw on (Fail, Unknown) shows red, gray and the reserved gray.
C12_Witness ==
    /\ uiPc = "circles"
    /\ network = Fail /\ serial = Unknown
    /\ c0 = <<"red">> /\ c1 = <<"gray">> /\ c2 = <<"gray">>

\* Positions of main after Fl::run() has returned.
AfterLoop == {"stop", "join_network", "join_serial", "returned"}

\* C13: the timer is armed at the start; every firing takes place while
\* running is true and re-arms the timer, so that a firing is scheduled
\* whenever the UI loop waits with its window shown; no firing begins once
\* running is false, and no step of the refresh path is taken after the UI
\* loop has exited.
C13_TimerRearm ==
    /\ timerArmed = TRUE
    /\ [][ /\ TimerLabel => (running /\ timerArmed')
           /\ TimerLoadP => running
           /\ (uiPc' = "run" /\ winShown') => timerArmed'
           /\ uiPc \in AfterLoop => ~RenderStep
         ]_vars

\* C13 witness: the UI loop has exited after a refresh that showed results,
\* and the workers are still to be joined.
C13_Witness ==
    /\ uiPc = "stop"
    /\ ~running
    /\ label = "network=OK, serial=down"
    /\ \E w \in Workers : pc[w] # "done"

\* The UI loop is running: main is inside Fl::run() and, when it waits for
\* the next event, its window is shown.
UILoopRunning == uiPc \notin AfterLoop /\ (uiPc = "run" => winShown)

\* C14: in every state where the UI loop is running the next step of the
\* refresh is enabled, whatever the positions of the two workers; and every
\* worker that has not terminated has a step enabled, whatever the position
\* of the UI thread.
C14_UINeverBlocks ==
    /\ UILoopRunning => ENABLED RenderStep
    /\ \A w \in Workers : pc[w] # "done" => ENABLED WorkerStep(w)

\* C14 witness: the refresh is between its two loads while one worker is
\* inside its subprocess call and the other has terminated.
C14_Witness ==
    /\ uiPc = "load_q"
    /\ pc["serial_worker"] = "system"
    /\ pc["network_worker"] = "done"

\* C15: the inter-iteration sleep, with the source's count of 40. A stored
\* result is followed by the sleep loop, starting from zero increments; an
\* increment is taken only after a test that found running true and fewer
\* than 40 increments taken; while running is true the loop is left for the
\* next invocation only after exactly 40 increments; once running is false
\* a worker in its sleep loop takes no increment other than the one it was
\* already in, and goes on to no further invocation.
C15_SleepIncrements ==
    /\ [](\A w \in Workers : i[w] \in 0..SleepIncrements)
    /\ [](\A w \in Workers : late[w].sleeps <= 1)
    /\ [][\A w \in Workers :
            /\ (pc[w] = "store" /\ pc'[w] # "store")
                   => (pc'[w] = "for" /\ i'[w] = 0)
            /\ (pc[w] = "for" /\ pc'[w] = "sleep")
                   => (running /\ i[w] < SleepIncrements /\ i'[w] = i[w])
            /\ (pc[w] = "sleep" /\ pc'[w] # "sleep")
                   => (pc'[w] = "for" /\ i'[w] = i[w] + 1)
            /\ (pc[w] = "for" /\ pc'[w] = "while" /\ running)
                   => i[w] = SleepIncrements
            /\ (pc[w] = "for" /\ ~running) => pc'[w] \in {"for", "while"}
            /\ (pc[w] = "while" /\ ~running) => pc'[w] \in {"while", "done"}
            /\ ~running => ~running'
         ]_vars

\* C15 witness: with no stop requested a worker is at the loop test after
\* its 40th increment, about to go on to its second invocation.
C15_Witness ==
    /\ running
    /\ pc["serial_worker"] = "for"
    /\ i["serial_worker"] = SleepIncrements
    /\ completed["serial_worker"] # <<>>

\* C16: a Fail result is transient. A worker leaves its loop only on a stop
\* request (or never enters it, its script not being found); every store
\* sets the cell from the exit status of that invocation alone, Ok for zero
\* and Fail otherwise, whatever the cell held; and under fair scheduling a
\* worker that has stored Fail is inside another invocation later on, unless
\* a stop is requested.
C16_FailTransient ==
    /\ [](\A w \in Workers : pc[w] = "done" => (~running \/ script[w] = ""))
    /\ [][\A w \in Workers :
            (pc[w] = "store" /\ pc'[w] = "for") =>
                CellOf(LoopCell(w))' = (IF rc[w] = <<0>> THEN Ok ELSE Fail)
         ]_vars
    /\ \A w \in Workers :
           (completed[w] = <<Fail>> /\ pc[w] = "for")
               ~> (pc[w] = "system" \/ ~running)

\* C16 witness: the serial probe failed, was invoked again and has now
\* exited with zero; the store about to happen turns the cell from Fail
\* to Ok.
C16_Witness ==
    /\ running
    /\ pc["serial_worker"] = "store"
    /\ completed["serial_worker"] = <<Fail>>
    /\ serial = Fail
    /\ rc["serial_worker"] = <<0>>

\* C17: Unknown is only a pre-first-run value: once a worker has completed
\* an invocation (and so stored Ok or Fail into its cell), that cell is not
\* Unknown in any later state.
C17_UnknownOnlyBeforeFirstRun ==
    \A w \in Workers :
        completed[w] # <<>> => CellOf(LoopCell(w)) \in {Ok, Fail}

\* The status line and the two colours on display all come from the one
\* pair (a, b) of cell values.
ShowsPair(a, b) ==
    /\ label = status_line(a, b)
    /\ c0 = <<color_for(a)>>
    /\ c1 = <<color_for(b)>>

\* C18 as stated: when draw has determined its colours, the status line
\* and the two colours are derived from the same pair of values, whatever
\* the workers stored since the timer callback's loads.
C18_ConsistentSnapshot ==
    uiPc = "circles" => \E a, b \in ProbeState : ShowsPair(a, b)

\* C18 as amended: the status line is derived from the pair the timer
\* callback loaded and the colours from the pair draw loaded; the two are
\* the same pair, the one the cells still hold at the last load, whenever
\* no worker stored into a cell between the callback's first load and
\* draw's last load.
C18_SnapshotIfNoStore ==
    /\ []((uiPc = "circles" /\ ~touched) => \E a, b \in ProbeState : ShowsPair(a, b))
    /\ [][(DrawLoad1 /\ ~touched) => ShowsPair(network, serial)']_vars

\* C18 witness: a refresh during which no worker stored, showing results.
C18_Witness ==
    /\ uiPc = "circles"
    /\ ~touched
    /\ label = "network=OK, serial=down"
    /\ c0 = <<"green">>
    /\ c1 = <<"red">>

\* The tokens s[j..k] joined into one name.
RECURSIVE Joined_tokens(_, _, _)
Joined_tokens(s, j, k) == IF j > k THEN "" ELSE s[j] \o Joined_tokens(s, j + 1, k)

\* The directories named in a PATH value s, in order: the maximal runs of
\* tokens that hold no ':'.
PathDirs(s) ==
    LET starts == SelectSeq([j \in 1..Len(s) |-> j],
                            LAMBDA j : s[j] # Colon /\ (j = 1 \/ s[j - 1] = Colon))
        endOf(j) == CHOOSE k \in j..Len(s) :
                        /\ \A m \in j..k : s[m] # Colon
                        /\ (k = Len(s) \/ s[k + 1] = Colon)
    IN [n \in 1..Len(starts) |-> Joined_tokens(s, starts[n], endOf(starts[n]))]

\* The directories the claim has searched, in order.
Searched(env) ==
    (IF env = <<>> THEN <<>> ELSE PathDirs(env[1]))
        \o <<"/usr/local/bin", "/usr/bin">>

\* The places in dirs that hold an executable scr.
Hits(dirs, scr, X) == {n \in 1..Len(dirs) : (dirs[n] \o "/" \o scr) \in X}

\* The result the claim states for script scr.
Found(dirs, scr, X) ==
    LET hits == Hits(dirs, scr, X)
    IN IF hits = {} THEN ""
       ELSE LET n == CHOOSE h \in hits : \A g \in hits : h <= g
            IN dirs[n] \o "/" \o scr

\* C19: once a worker has called resolve_path, its script is the candidate
\* in the first directory, among the non-empty directories of PATH in order
\* and then /usr/local/bin and /usr/bin, that holds an executable of its
\* name, and the empty string exactly when none of them holds one; each
\* worker calls resolve_path once, its script is that result in every later
\* state, and the loop is only entered with a non-empty result.
C19_ResolvePath ==
    \A w \in Workers :
        /\ pc[w] # "resolve" =>
              LET dirs == Searched(PATH)
              IN /\ script[w] = Found(dirs, ScriptOf(w), execs)
                 /\ script[w] = "" <=> Hits(dirs, ScriptOf(w), execs) = {}
        /\ resolves[w] = (IF pc[w] = "resolve" THEN 0 ELSE 1)
        /\ pc[w] \in {"while", "call", "system", "store", "for", "sleep"}
               => script[w] # ""

\* C19 witness: PATH ":/a:" with test_network.sh executable in the root
\* and in /usr/bin only; the empty field is skipped, /a and /usr/local/bin
\* hold nothing, and the network worker is inside its second or a later
\* invocation of /usr/bin/test_network.sh.
C19_Witness ==
    /\ PATH = <<<<Colon, "/a", Colon>>>>
    /\ execs = {"/test_network.sh", "/usr/bin/test_network.sh"}
    /\ script["network_worker"] = "/usr/bin/test_network.sh"
    /\ pc["network_worker"] = "system"
    /\ completed["network_worker"] # <<>>

====
